---- MODULE Spec2Model ----
(***************************************************************************)
(* A model of nestcheck's pandas_functions.py (summary tables and          *)
(* efficiency gains) and parallel_utils.py (parallel_map, parallel_apply). *)
(*                                                                         *)
(* Floating point numbers are modelled as exact reals of the form          *)
(* (p/q)*sqrt(m), m squarefree, together with the IEEE specials NaN and    *)
(* +-Inf that numpy produces on a division by zero.  Every number the code *)
(* computes from integer data is of that form.                             *)
(***************************************************************************)
EXTENDS Integers, Sequences, FiniteSets, TLC

VARIABLES pc, fn, args, result, futures, results

vars == <<pc, fn, args, result, futures, results>>

(***************************************************************************)
(* Bounds of the model.                                                    *)
(***************************************************************************)
MaxN == 3

\* the bits of the significand of a floating-point number: 53 in numpy's
\* float64; the model rounds to fewer, so that sums that need rounding are
\* within reach of tables of MaxN rows
Precision == 2

\* sample values of one cell of a raw table, and of one true value
Vals == {0, 1}

\* est_names: the column titles, as in tests.py
EstNamesSet == {<<"samples">>, <<"samples", "est 0">>}

(***************************************************************************)
(* Numbers.                                                                *)
(***************************************************************************)
Abs(i) == IF i < 0 THEN -i ELSE i

Sign(i) == IF i < 0 THEN -1 ELSE IF i = 0 THEN 0 ELSE 1

\* the array with the entries of the function f on 1..n, evaluated once
Arr(f) == f \o <<>>

RECURSIVE Gcd(_, _)
Gcd(a, b) == IF b = 0 THEN a ELSE Gcd(b, a % b)

\* the largest f with f*f dividing n (n >= 1), searched from f upwards
RECURSIVE SquarePart(_, _)
SquarePart(n, f) ==
    IF f * f > n THEN 1
    ELSE IF n % (f * f) = 0 THEN f * SquarePart(n \div (f * f), f)
    ELSE SquarePart(n, f + 1)

NaN == [k |-> "nan", p |-> 0, q |-> 1, m |-> 1]

Inf(s) == [k |-> "inf", p |-> s, q |-> 1, m |-> 1]

\* the finite number (p/q)*sqrt(m) in canonical form, q > 0, m >= 1
Reduced(p, q, m, g) == [k |-> "fin", p |-> p \div g, q |-> q \div g, m |-> m]

SquareOut(p, q, m, f) == Reduced(p * f, q, m \div (f * f), Gcd(Abs(p * f), q))

Fin(p, q, m) ==
    IF p = 0 \/ m = 0 THEN [k |-> "fin", p |-> 0, q |-> 1, m |-> 1]
    ELSE SquareOut(p, q, m, SquarePart(m, 2))

Num(i) == Fin(i, 1, 1)

Zero == Num(0)

One == Num(1)

IsZero(a) == a.k = "fin" /\ a.p = 0

Mul(a, b) ==
    IF a.k = "nan" \/ b.k = "nan" THEN NaN
    ELSE IF a.k = "inf" \/ b.k = "inf"
         THEN IF IsZero(a) \/ IsZero(b) THEN NaN ELSE Inf(Sign(a.p) * Sign(b.p))
    ELSE Fin(a.p * b.p * Gcd(a.m, b.m), a.q * b.q,
             (a.m \div Gcd(a.m, b.m)) * (b.m \div Gcd(a.m, b.m)))

\* a division guarded against a zero denominator, which gives zero
DivGuarded(a, b) ==
    IF a.k = "nan" \/ b.k = "nan" THEN NaN
    ELSE IF IsZero(b) THEN Zero
    ELSE IF a.k = "inf"
         THEN IF b.k = "inf" THEN NaN ELSE Inf(a.p * Sign(b.p))
    ELSE IF b.k = "inf" THEN Zero
    ELSE Fin(a.p * b.q * Sign(b.p), a.q * Abs(b.p) * (b.m \div Gcd(a.m, b.m)),
             (a.m \div Gcd(a.m, b.m)) * (b.m \div Gcd(a.m, b.m)))

\* a / b as numpy and pandas divide: nan and inf where b is zero
Div(a, b) ==
    IF a.k = "nan" \/ b.k = "nan" THEN NaN
    ELSE IF a.k = "inf"
         THEN IF b.k = "inf" THEN NaN
              ELSE Inf(IF IsZero(b) THEN a.p ELSE a.p * Sign(b.p))
    ELSE IF b.k = "inf" THEN Zero
    ELSE IF IsZero(b) THEN (IF IsZero(a) THEN NaN ELSE Inf(Sign(a.p)))
    ELSE Fin(a.p * b.q * Sign(b.p), a.q * Abs(b.p) * (b.m \div Gcd(a.m, b.m)),
             (a.m \div Gcd(a.m, b.m)) * (b.m \div Gcd(a.m, b.m)))

\* a + b; the code only ever adds rationals (m = 1) and specials
Add(a, b) ==
    IF a.k = "nan" \/ b.k = "nan" THEN NaN
    ELSE IF a.k = "inf" /\ b.k = "inf" THEN (IF a.p = b.p THEN a ELSE NaN)
    ELSE IF a.k = "inf" THEN a
    ELSE IF b.k = "inf" THEN b
    ELSE IF IsZero(a) THEN b
    ELSE IF IsZero(b) THEN a
    ELSE IF a.m = b.m THEN Fin(a.p * b.q + b.p * a.q, a.q * b.q, a.m)
    ELSE NaN

Neg(a) == IF a.k = "nan" THEN a ELSE [a EXCEPT !.p = -a.p]

Sub(a, b) == Add(a, Neg(b))

Sq(a) == Mul(a, a)

\* np.sqrt and ** 0.5 of a rational or special
Sqrt(a) ==
    IF a.k = "nan" THEN NaN
    ELSE IF a.k = "inf" THEN (IF a.p > 0 THEN a ELSE NaN)
    ELSE IF a.p < 0 THEN NaN
    ELSE IF a.m # 1 THEN NaN
    ELSE Fin(1, a.q, a.p * a.q)

(***************************************************************************)
(* Vectors (1d arrays, rows of a data frame) and 2d arrays.                *)
(***************************************************************************)
RECURSIVE SumSeq(_)
SumSeq(s) == IF s = <<>> THEN Zero ELSE Add(Head(s), SumSeq(Tail(s)))

NumVec(v) == Arr([j \in 1..Len(v) |-> Num(v[j])])

\* column j of a table given as a sequence of rows
Column(rows, j) == Arr([i \in 1..Len(rows) |-> rows[i][j]])

\* numpy's ndarray.T for a 2d array of shape (n, c), given as n rows
Transpose(rows, c) == Arr([j \in 1..c |-> Column(rows, j)])

\* the first entry in place of the mean
MeanOfFirst(col) == col[1]

\* np.mean(x)
Mean(col) == Div(SumSeq(col), Num(Len(col)))

\* np.std(x, ddof=1) and pandas' std(ddof=1)
\* the squared deviations of the entries of col from mu
SqDev(col, mu) == Arr([i \in 1..Len(col) |-> Sq(Sub(col[i], mu))])

Std(col) == Sqrt(Div(SumSeq(SqDev(col, Mean(col))), Num(Len(col) - 1)))

(***************************************************************************)
(* The same mean as binary floating point computes it: m * 2^e with a      *)
(* significand m of at most Precision bits, every sum and quotient rounded *)
(* to the nearest such number, ties to the even significand.               *)
(***************************************************************************)
RECURSIVE BitLength(_)
BitLength(m) == IF m = 0 THEN 0 ELSE 1 + BitLength(m \div 2)

\* the number m * 2^e with its significand odd, or zero
RECURSIVE Float(_, _)
Float(m, e) ==
    IF m = 0 THEN [m |-> 0, e |-> 0]
    ELSE IF m % 2 = 0 THEN Float(m \div 2, e + 1)
    ELSE [m |-> m, e |-> e]

\* 1 when the quotient q with remainder r is rounded up, half the divisor
RoundUp(q, r, half) == IF r > half \/ (r = half /\ q % 2 = 1) THEN 1 ELSE 0

\* m * 2^e with the s last bits of m rounded away
Rounded(m, e, s) ==
    IF s <= 0 THEN Float(m, e)
    ELSE Float((m \div 2^s) + RoundUp(m \div 2^s, m % 2^s, 2^(s - 1)), e + s)

\* m * 2^e rounded to Precision bits
Round(m, e) == Rounded(m, e, BitLength(m) - Precision)

\* a + b computed at the exponent e, the smaller of theirs
AddAt(a, b, e) == Round(a.m * 2^(a.e - e) + b.m * 2^(b.e - e), e)

FloatAdd(a, b) == AddAt(a, b, IF a.e < b.e THEN a.e ELSE b.e)

\* the bits kept below the quotient so that it rounds as the exact one
GuardBits == Precision + 3

\* (m / n) * 2^e rounded: a remainder is kept as one more bit
Quotient(m, n, e) ==
    IF m % n = 0 THEN Round(m \div n, e) ELSE Round(2 * (m \div n) + 1, e - 1)

FloatDiv(a, n) == Quotient(a.m * 2^GuardBits, n, a.e - GuardBits)

\* the sum of the first i entries of col (non-negative integers), added one
\* after the other in the order of the rows
RECURSIVE FloatSum(_, _)
FloatSum(col, i) ==
    IF i = 0 THEN Float(0, 0) ELSE FloatAdd(FloatSum(col, i - 1), Float(col[i].p, 0))

\* df_in.mean(axis=0) of one column in floating point
FloatMean(col) == FloatDiv(FloatSum(col, Len(col)), Len(col))

(***************************************************************************)
(* Keyword options, exceptions and data frames.                            *)
(***************************************************************************)
\* an absent optional array (Python's None)
None == [some |-> FALSE, v |-> <<>>]

Some(v) == [some |-> TRUE, v |-> v]

\* kwargs.pop(name, default)
Pop(kwargs, name, default) ==
    IF name \in DOMAIN kwargs THEN kwargs[name] ELSE default

\* kwargs left unchecked: every option that is not popped is dropped
RestIgnored(kwargs, names) == <<>>

\* what is left of kwargs once the names have been popped
Rest(kwargs, names) == [x \in (DOMAIN kwargs) \ names |-> kwargs[x]]

\* a call that raises: no data frame is returned
Raise(exc) == [kind |-> exc, columns |-> <<>>, rows |-> <<>>]

Frame(columns, rows) == [kind |-> "ok", columns |-> columns, rows |-> rows]

Range(s) == {s[i] : i \in 1..Len(s)}

\* the 1-based position of x in the sequence s, 0 when absent
IndexOf(s, x) ==
    IF \E i \in 1..Len(s) : s[i] = x
    THEN CHOOSE i \in 1..Len(s) : s[i] = x /\ \A j \in 1..(i - 1) : s[j] # x
    ELSE 0

\* the first exception raised in a sequence of outcomes, "ok" when there is none
RECURSIVE FirstRaised(_)
FirstRaised(kinds) ==
    IF kinds = <<>> THEN "ok"
    ELSE IF Head(kinds) # "ok" THEN Head(kinds)
    ELSE FirstRaised(Tail(kinds))

SummaryCategories == <<"true values", "mean", "std", "rmse">>

ResultTypes == <<"value", "uncertainty">>

\* the sort key of a row of summary_df: the codes of its two categoricals
SummaryRank(row) ==
    <<IndexOf(SummaryCategories, row.ct), IndexOf(ResultTypes, row.rt)>>

\* lexicographic order on tuples of codes of the same length
RECURSIVE LexLeq(_, _)
LexLeq(a, b) ==
    IF a = <<>> THEN TRUE
    ELSE IF Head(a) < Head(b) THEN TRUE
    ELSE IF Head(a) > Head(b) THEN FALSE
    ELSE LexLeq(Tail(a), Tail(b))

\* insert the keyed row into the sorted sequence, after the rows not greater
RECURSIVE InsertSorted(_, _)
InsertSorted(kr, sorted) ==
    IF sorted = <<>> THEN <<kr>>
    ELSE IF LexLeq(Head(sorted).key, kr.key)
         THEN <<Head(sorted)>> \o InsertSorted(kr, Tail(sorted))
         ELSE <<kr>> \o sorted

\* a stable sort of keyed rows [key, row] by key
RECURSIVE SortKeyed(_)
SortKeyed(krs) ==
    IF krs = <<>> THEN <<>>
    ELSE InsertSorted(krs[Len(krs)], SortKeyed(SubSeq(krs, 1, Len(krs) - 1)))

\* the rows of a sorted sequence of keyed rows
Unkeyed(krs) == Arr([i \in 1..Len(krs) |-> krs[i].row])

\* the table left in the order of insertion
Unsorted(rows) == rows

\* DataFrame.sort_index of the table built by summary_df
SortIndex(rows) ==
    Unkeyed(SortKeyed(Arr([i \in 1..Len(rows) |->
                             [key |-> SummaryRank(rows[i]), row |-> rows[i]]])))

(***************************************************************************)
(* Uncertainty primitives.                                                 *)
(***************************************************************************)
\* the squares of the values themselves, the true values left out
SqErrorsOfValues(values, ncols, true_values) ==
    Arr([i \in 1..Len(values) |-> Arr([j \in 1..ncols |-> Sq(values[i][j])])])

\* (values_array - true_values[np.newaxis, :]) ** 2
SqErrors(values, ncols, true_values) ==
    Arr([i \in 1..Len(values) |->
           Arr([j \in 1..ncols |-> Sq(Sub(values[i][j], true_values[j]))])])

\* rmse and its uncertainty from the squared errors
RmseOf(sq_errors, ncols) ==
    [kind |-> "ok",
     rmse |-> Arr([j \in 1..ncols |-> Sqrt(Mean(Column(sq_errors, j)))]),
     unc |-> Arr([j \in 1..ncols |->
                Mul(Mul(Fin(1, 2, 1), Div(One, Sqrt(Mean(Column(sq_errors, j))))),
                    Div(Std(Column(sq_errors, j)), Sqrt(Num(Len(sq_errors)))))])]

\* rmse_and_unc without the assertion on the shape of true_values
RmseAndUncUnasserted(values, ncols, true_values) ==
    RmseOf(SqErrors(values, ncols, true_values), ncols)

\* rmse_and_unc(values_array, true_values): columns are the arrays' axis 1
RmseAndUnc(values, ncols, true_values) ==
    IF Len(true_values) # ncols
    THEN [kind |-> "AssertionError", rmse |-> <<>>, unc |-> <<>>]
    ELSE RmseOf(SqErrors(values, ncols, true_values), ncols)

\* array_ratio_std, elementwise on two rows
ArrayRatioStd(values_n, sigmas_n, values_d, sigmas_d) ==
    Arr([j \in 1..Len(values_n) |->
        Mul(Div(values_n[j], values_d[j]),
            Sqrt(Add(Sq(Div(sigmas_n[j], values_n[j])),
                     Sq(Div(sigmas_d[j], values_d[j])))))])

(***************************************************************************)
(* summary_df and its adapters.                                            *)
(***************************************************************************)
Row(ct, rt, vals) == [ct |-> ct, rt |-> rt, vals |-> vals]

\* the rows 'mean' and 'std' and, when asked for, 'true values'
ValueRows(mean, std, true_values, include_true_values) ==
    <<Row("mean", "value", mean), Row("std", "value", std)>>
    \o (IF include_true_values
        THEN <<Row("true values", "value", NumVec(true_values.v))>>
        ELSE <<>>)

\* the uncertainties with 2 * num_cals for 2 * (num_cals - 1)
UncertaintyRowsBiased(std, num_cals) ==
    <<Row("mean", "uncertainty",
          Arr([j \in 1..Len(std) |-> Div(std[j], Sqrt(Num(num_cals)))])),
      Row("std", "uncertainty",
          Arr([j \in 1..Len(std) |-> Mul(std[j], Sqrt(Fin(1, 2 * num_cals, 1)))]))>>

\* the uncertainties on the mean and on the std of num_cals repeats
UncertaintyRows(std, num_cals) ==
    <<Row("mean", "uncertainty",
          Arr([j \in 1..Len(std) |-> Div(std[j], Sqrt(Num(num_cals)))])),
      Row("std", "uncertainty",
          Arr([j \in 1..Len(std) |->
                 Mul(std[j], Sqrt(Fin(1, 2 * (num_cals - 1), 1)))]))>>

\* the rmse without the row of its uncertainty
RmseRowsValueOnly(r) == <<Row("rmse", "value", r.rmse)>>

\* the rows of the rmse and of its uncertainty
RmseRows(r) == <<Row("rmse", "value", r.rmse), Row("rmse", "uncertainty", r.unc)>>

\* the rows of summary_df in the order in which the code inserts them
SummaryRows(df_in, ncols, true_values, include_true_values, include_rmse, mean, std) ==
    ValueRows(mean, std, true_values, include_true_values)
    \o UncertaintyRows(std, Len(df_in.data))
    \o (IF include_rmse
        THEN RmseRows(RmseAndUnc(df_in.data, ncols, NumVec(true_values.v)))
        ELSE <<>>)

\* the table of summary_df once its options are popped and checked
SummaryFrame(df_in, ncols, true_values, include_true_values, include_rmse) ==
    Frame(df_in.columns,
          SortIndex(SummaryRows(df_in, ncols, true_values, include_true_values,
                                include_rmse,
                                Arr([j \in 1..ncols |-> Mean(Column(df_in.data, j))]),
                                Arr([j \in 1..ncols |-> Std(Column(df_in.data, j))]))))

\* summary_df without the assertion that true values come with
\* include_true_values: the row of true values is left empty
SummaryCheckedUnasserted(df_in, ncols, true_values, include_true_values, include_rmse, rest) ==
    IF DOMAIN rest # {} THEN Raise("TypeError")
    ELSE IF true_values.some /\ Len(true_values.v) # ncols THEN Raise("AssertionError")
    ELSE IF 2 * (Len(df_in.data) - 1) = 0 THEN Raise("ZeroDivisionError")
    ELSE IF include_rmse /\ ~true_values.some THEN Raise("AssertionError")
    ELSE SummaryFrame(df_in, ncols, true_values, include_true_values, include_rmse)

\* summary_df with its options popped: its checks in the order of the code
SummaryChecked(df_in, ncols, true_values, include_true_values, include_rmse, rest) ==
    IF DOMAIN rest # {} THEN Raise("TypeError")
    ELSE IF true_values.some /\ Len(true_values.v) # ncols THEN Raise("AssertionError")
    ELSE IF include_true_values /\ ~true_values.some THEN Raise("AssertionError")
    ELSE IF 2 * (Len(df_in.data) - 1) = 0 THEN Raise("ZeroDivisionError")
    ELSE IF include_rmse /\ ~true_values.some THEN Raise("AssertionError")
    ELSE SummaryFrame(df_in, ncols, true_values, include_true_values, include_rmse)

SummaryOptions == {"true_values", "include_true_values", "include_rmse"}

\* summary_df(df_in, **kwargs); df_in is [columns, data], data its rows
SummaryDf(df_in, kwargs) ==
    SummaryChecked(df_in, Len(df_in.columns),
                   Pop(kwargs, "true_values", None),
                   Pop(kwargs, "include_true_values", FALSE),
                   Pop(kwargs, "include_rmse", FALSE),
                   Rest(kwargs, SummaryOptions))

\* summary_df_from_array that takes the repeats along axis 0 whatever axis is
SummaryDfFromArrayAxis0(results_array, names, axis, kwargs) ==
    IF axis \notin {0, 1} THEN Raise("AssertionError")
    ELSE IF Len(names) # results_array.shape[2] THEN Raise("ValueError")
    ELSE SummaryDf([columns |-> names, data |-> results_array.rows], kwargs)

\* summary_df_from_array(results_array, names, axis=0, **kwargs);
\* results_array is [shape, rows]
SummaryDfFromArray(results_array, names, axis, kwargs) ==
    IF axis \notin {0, 1} THEN Raise("AssertionError")
    ELSE IF Len(names) # (IF axis = 1 THEN results_array.shape[1]
                         ELSE results_array.shape[2])
         THEN Raise("ValueError")
    ELSE SummaryDf([columns |-> names,
                    data |-> IF axis = 1
                             THEN Transpose(results_array.rows, results_array.shape[2])
                             ELSE results_array.rows],
                   kwargs)

\* summary_df_from_list(results_list, names, **kwargs)
SummaryDfFromList(results_list, names, kwargs) ==
    IF \E i \in 1..Len(results_list) : Len(results_list[i]) # Len(names)
    THEN Raise("AssertionError")
    ELSE SummaryDf([columns |-> names,
                    data |-> Arr([i \in 1..Len(results_list) |-> results_list[i]])],
                   kwargs)

(***************************************************************************)
(* summary_df_from_multi.                                                  *)
(***************************************************************************)
\* the index labels of the grouped tables, in ascending (string) order
SortedLabels == <<"method 1", "method 2", "true_subgroup">>

\* the positions of the levels named in inds_to_keep, in that order
KeptLevels(names, inds_to_keep) ==
    Arr([i \in 1..Len(inds_to_keep) |-> IndexOf(names, inds_to_keep[i])])

\* the group key of a row: its labels on the kept levels
GroupKey(idx, levels) == Arr([i \in 1..Len(levels) |-> idx[levels[i]]])

\* the rows of one group, in their order in the table
RECURSIVE GroupRows(_, _, _)
GroupRows(rows, levels, key) ==
    IF rows = <<>> THEN <<>>
    ELSE IF GroupKey(Head(rows).idx, levels) = key
         THEN <<Head(rows).vals>> \o GroupRows(Tail(rows), levels, key)
         ELSE GroupRows(Tail(rows), levels, key)

\* the codes of the labels of a group key
KeyRank(k) == Arr([i \in 1..Len(k) |-> IndexOf(SortedLabels, k[i])])

LeastKey(keys) == CHOOSE k \in keys : \A o \in keys : LexLeq(KeyRank(k), KeyRank(o))

\* the distinct group keys, sorted as groupby sorts them
RECURSIVE SortedKeys(_)
SortedKeys(keys) ==
    IF keys = {} THEN <<>>
    ELSE <<LeastKey(keys)>> \o SortedKeys(keys \ {LeastKey(keys)})

\* the summary rows of one group under the group's key
Keyed(key, rows) ==
    Arr([i \in 1..Len(rows) |->
           [idx |-> key \o <<rows[i].ct, rows[i].rt>>, vals |-> rows[i].vals]])

\* the rows of the summaries of the groups, each under its group key
RECURSIVE ConcatGroups(_, _)
ConcatGroups(keys, dfs) ==
    IF keys = <<>> THEN <<>>
    ELSE Keyed(Head(keys), dfs[Head(keys)].rows) \o ConcatGroups(Tail(keys), dfs)

\* the index of a row once the two 'calculation type' levels are merged:
\* level ct_lev0 of the nkeep kept ones gets both labels, 'result type' follows
MergedIdx(idx, nkeep, ct_lev0) ==
    Arr([l \in 1..(nkeep + 1) |->
           IF l = ct_lev0 THEN idx[ct_lev0] \o " " \o idx[nkeep + 1]
           ELSE IF l = nkeep + 1 THEN idx[nkeep + 2]
           ELSE idx[l]])

Merged(df, nkeep, ct_lev0) ==
    Arr([i \in 1..Len(df) |->
           [idx |-> MergedIdx(df[i].idx, nkeep, ct_lev0), vals |-> df[i].vals]])

MultiFrame(columns, names, rows) ==
    [kind |-> "ok", columns |-> columns, rows |-> rows, names |-> names]

\* the summaries of the groups put together
MultiConcat(multi_in, inds_to_keep, keys, dfs, raised) ==
    IF raised # "ok" THEN Raise(raised)
    ELSE IF IndexOf(inds_to_keep, "calculation type") # 0
         THEN MultiFrame(multi_in.columns, inds_to_keep \o <<"result type">>,
                         Merged(ConcatGroups(keys, dfs), Len(inds_to_keep),
                                IndexOf(inds_to_keep, "calculation type")))
    ELSE MultiFrame(multi_in.columns,
                    inds_to_keep \o <<"calculation type", "result type">>,
                    ConcatGroups(keys, dfs))

\* groupby(inds_to_keep).apply(summary_df), the groups being on the levels
GroupbyApply(multi_in, inds_to_keep, levels, keys) ==
    MultiConcat(multi_in, inds_to_keep, keys,
                [k \in Range(keys) |->
                   SummaryDf([columns |-> multi_in.columns,
                              data |-> GroupRows(multi_in.rows, levels, k)], <<>>)],
                FirstRaised(Arr([i \in 1..Len(keys) |->
                   SummaryDf([columns |-> multi_in.columns,
                              data |-> GroupRows(multi_in.rows, levels, keys[i])],
                             <<>>).kind])))

MultiKept(multi_in, inds_to_keep) ==
    GroupbyApply(multi_in, inds_to_keep, KeptLevels(multi_in.names, inds_to_keep),
                 SortedKeys({GroupKey(multi_in.rows[i].idx,
                                      KeptLevels(multi_in.names, inds_to_keep)) :
                               i \in 1..Len(multi_in.rows)}))

\* summary_df_from_multi(multi_in, inds_to_keep=None), called with **kwargs:
\* the signature takes no keyword option but inds_to_keep.
\* multi_in is [columns, names, rows], a row being [idx, vals].
SummaryDfFromMulti(multi_in, inds_to_keep, kwargs) ==
    IF DOMAIN kwargs # {} THEN Raise("TypeError")
    ELSE MultiKept(multi_in,
                   IF inds_to_keep.some THEN inds_to_keep.v
                   ELSE SubSeq(multi_in.names, 1, Len(multi_in.names) - 1))

(***************************************************************************)
(* efficiency_gain_df.                                                     *)
(***************************************************************************)
GainOptions == {"true_values", "include_true_values", "include_rmse", "adjust_nsamp"}

GainCategories == <<"true values", "mean", "std", "rmse",
                    "std efficiency gain", "rmse efficiency gain">>

\* an absent cost vector
NoAdjust == [some |-> FALSE, v |-> <<>>]

\* df.loc[(ct, rt)] of a summary table
Loc(rows, ct, rt) ==
    rows[CHOOSE i \in 1..Len(rows) : rows[i].ct = ct /\ rows[i].rt = rt].vals

\* adjust_nsamp[0] / adjust_nsamp[1:]
Adjust(adjust_nsamp) ==
    Arr([k \in 1..(Len(adjust_nsamp) - 1) |-> Fin(adjust_nsamp[1], adjust_nsamp[k + 1], 1)])

\* can a row (one entry per estimator) be multiplied by the array adjust
Broadcastable(row, adjust) == Len(adjust) = Len(row) \/ Len(adjust) = 1

\* row *= adjust under numpy's broadcasting
TimesAdjust(row, adjust) ==
    Arr([j \in 1..Len(row) |->
           Mul(row[j], IF Len(adjust) = 1 THEN adjust[1] ELSE adjust[j])])

\* the gain and its uncertainty written to each other's row
GainOfSwapped(key, ratio, ratio_unc, adjust_nsamp) ==
    <<Row(key, "value",
          Arr([j \in 1..Len(ratio) |-> Mul(Mul(Num(2), ratio[j]), ratio_unc[j])])),
      Row(key, "uncertainty", Arr([j \in 1..Len(ratio) |-> Sq(ratio[j])]))>>

\* the row of the uncertainty of the gain without the row of its value
GainOfUncertaintyOnly(key, ratio, ratio_unc, adjust_nsamp) ==
    <<Row(key, "uncertainty",
          Arr([j \in 1..Len(ratio) |-> Mul(Mul(Num(2), ratio[j]), ratio_unc[j])]))>>

\* ratio ** 2 and 2 * ratio * ratio_unc, then the cost adjustment
GainOf(key, ratio, ratio_unc, adjust_nsamp) ==
    IF adjust_nsamp.some
    THEN <<Row(key, "value",
               TimesAdjust(Arr([j \in 1..Len(ratio) |-> Sq(ratio[j])]),
                           Adjust(adjust_nsamp.v))),
           Row(key, "uncertainty",
               TimesAdjust(Arr([j \in 1..Len(ratio) |->
                                  Mul(Mul(Num(2), ratio[j]), ratio_unc[j])]),
                           Adjust(adjust_nsamp.v)))>>
    ELSE <<Row(key, "value", Arr([j \in 1..Len(ratio) |-> Sq(ratio[j])])),
           Row(key, "uncertainty",
               Arr([j \in 1..Len(ratio) |->
                      Mul(Mul(Num(2), ratio[j]), ratio_unc[j])]))>>

\* the gain rows from the ratio of the method to the baseline
GainFromInverted(key, values_n, sigmas_n, values_d, sigmas_d, adjust_nsamp) ==
    GainOf(key, Arr([j \in 1..Len(values_n) |-> Div(values_d[j], values_n[j])]),
           ArrayRatioStd(values_d, sigmas_d, values_n, sigmas_n), adjust_nsamp)

\* the gain rows of one statistic from the rows of the baseline (n) and of
\* the method (d)
GainFrom(key, values_n, sigmas_n, values_d, sigmas_d, adjust_nsamp) ==
    GainOf(key, Arr([j \in 1..Len(values_n) |-> Div(values_n[j], values_d[j])]),
           ArrayRatioStd(values_n, sigmas_n, values_d, sigmas_d), adjust_nsamp)

\* the two gain rows of one statistic of a method against the baseline
GainRows(base, df, stat, adjust_nsamp) ==
    GainFrom(IF stat = "std" THEN "std efficiency gain" ELSE "rmse efficiency gain",
             Loc(base, stat, "value"), Loc(base, stat, "uncertainty"),
             Loc(df, stat, "value"), Loc(df, stat, "uncertainty"), adjust_nsamp)

\* the sort key of a row of the combined table
GainRank(row, method_names) ==
    <<IndexOf(GainCategories, row.ct), IndexOf(<<"">> \o method_names, row.ds),
      IndexOf(ResultTypes, row.rt)>>

\* pd.concat with the rows of the first method under the empty label
RECURSIVE ConcatBaselineUnnamed(_, _, _)
ConcatBaselineUnnamed(method_names, df_dict, i) ==
    IF i > Len(method_names) THEN <<>>
    ELSE Arr([r \in 1..Len(df_dict[i]) |->
             [ct |-> df_dict[i][r].ct, ds |-> IF i = 1 THEN "" ELSE method_names[i],
              rt |-> df_dict[i][r].rt, vals |-> df_dict[i][r].vals]])
         \o ConcatBaselineUnnamed(method_names, df_dict, i + 1)

\* pd.concat(df_dict): the rows of every method under the method's name
RECURSIVE Concat(_, _, _)
Concat(method_names, df_dict, i) ==
    IF i > Len(method_names) THEN <<>>
    ELSE Arr([r \in 1..Len(df_dict[i]) |->
             [ct |-> df_dict[i][r].ct, ds |-> method_names[i],
              rt |-> df_dict[i][r].rt, vals |-> df_dict[i][r].vals]])
         \o Concat(method_names, df_dict, i + 1)

\* the rows left in the order of the concatenation
ConcatOrder(rows, method_names) == rows

\* results.sort_index() on the three categorical levels
SortGainIndex(rows, method_names) ==
    Unkeyed(SortKeyed(Arr([i \in 1..Len(rows) |->
               [key |-> GainRank(rows[i], method_names), row |-> rows[i]]])))

\* the outcome of iteration i of the loop over the methods
Step(summary, i, est_names, adjust_nsamp) ==
    IF summary[i].kind # "ok" THEN summary[i].kind
    ELSE IF i # 1 /\ adjust_nsamp.some
            /\ ~Broadcastable(est_names, Adjust(adjust_nsamp.v))
         THEN "ValueError"
    ELSE "ok"

\* df_dict[method_names[i]] with the gain rows added for the first method too
MethodDfWithBaselineGain(summary, i, include_rmse, adjust_nsamp) ==
    summary[i].rows
    \o GainRows(summary[1].rows, summary[i].rows, "std", adjust_nsamp)
    \o (IF include_rmse
        THEN GainRows(summary[1].rows, summary[i].rows, "rmse", adjust_nsamp)
        ELSE <<>>)

\* df_dict[method_names[i]] with the summary rows of the first method in
\* place of the method's own
MethodDfOverBaseline(summary, i, include_rmse, adjust_nsamp) ==
    IF i = 1 THEN summary[1].rows
    ELSE summary[1].rows
         \o GainRows(summary[1].rows, summary[i].rows, "std", adjust_nsamp)
         \o (IF include_rmse
             THEN GainRows(summary[1].rows, summary[i].rows, "rmse", adjust_nsamp)
             ELSE <<>>)

\* df_dict[method_names[i]] at the end of iteration i
MethodDf(summary, i, include_rmse, adjust_nsamp) ==
    IF i = 1 THEN summary[i].rows
    ELSE summary[i].rows
         \o GainRows(summary[1].rows, summary[i].rows, "std", adjust_nsamp)
         \o (IF include_rmse
             THEN GainRows(summary[1].rows, summary[i].rows, "rmse", adjust_nsamp)
             ELSE <<>>)

\* the row results.loc[('true values', '', 'value')] = true_values
TrueValuesRow(true_values, est_names) ==
    [ct |-> "true values", ds |-> "", rt |-> "value",
     vals |-> IF true_values.some THEN NumVec(true_values.v)
              ELSE Arr([j \in 1..Len(est_names) |-> NaN])]

\* the combined table, from the summaries of the methods
GainFrame(method_names, est_names, true_values, include_true_values, include_rmse, adjust_nsamp, summary) ==
    IF FirstRaised(Arr([i \in 1..Len(method_names) |->
                          Step(summary, i, est_names, adjust_nsamp)])) # "ok"
    THEN Raise(FirstRaised(Arr([i \in 1..Len(method_names) |->
                                  Step(summary, i, est_names, adjust_nsamp)])))
    ELSE IF include_true_values /\ true_values.some
            /\ Len(true_values.v) # Len(est_names)
         THEN Raise("ValueError")
    ELSE Frame(est_names,
               SortGainIndex(
                   Concat(method_names,
                          Arr([i \in 1..Len(method_names) |->
                                 MethodDf(summary, i, include_rmse, adjust_nsamp)]), 1)
                   \o (IF include_true_values
                       THEN <<TrueValuesRow(true_values, est_names)>>
                       ELSE <<>>),
                   method_names))

\* efficiency_gain_df handing include_true_values on to every summary
GainCheckedRepeated(method_names, method_values, est_names, true_values, include_true_values, include_rmse, adjust_nsamp, rest) ==
    IF DOMAIN rest # {} THEN Raise("TypeError")
    ELSE IF adjust_nsamp.some /\ Len(adjust_nsamp.v) # Len(method_names)
         THEN Raise("AssertionError")
    ELSE IF Len(method_names) # Len(method_values) THEN Raise("AssertionError")
    ELSE GainFrame(method_names, est_names, true_values, include_true_values,
                   include_rmse, adjust_nsamp,
                   Arr([i \in 1..Len(method_names) |->
                          SummaryDfFromList(method_values[i], est_names,
                              [true_values |-> true_values,
                               include_true_values |-> include_true_values,
                               include_rmse |-> include_rmse])]))

\* efficiency_gain_df with its options popped
GainChecked(method_names, method_values, est_names, true_values, include_true_values, include_rmse, adjust_nsamp, rest) ==
    IF DOMAIN rest # {} THEN Raise("TypeError")
    ELSE IF adjust_nsamp.some /\ Len(adjust_nsamp.v) # Len(method_names)
         THEN Raise("AssertionError")
    ELSE IF Len(method_names) # Len(method_values) THEN Raise("AssertionError")
    ELSE GainFrame(method_names, est_names, true_values, include_true_values,
                   include_rmse, adjust_nsamp,
                   Arr([i \in 1..Len(method_names) |->
                          SummaryDfFromList(method_values[i], est_names,
                              [true_values |-> true_values,
                               include_true_values |-> FALSE,
                               include_rmse |-> include_rmse])]))

\* efficiency_gain_df(method_names, method_values, est_names, **kwargs)
EfficiencyGainDf(method_names, method_values, est_names, kwargs) ==
    GainChecked(method_names, method_values, est_names,
                Pop(kwargs, "true_values", None),
                Pop(kwargs, "include_true_values", FALSE),
                Pop(kwargs, "include_rmse", FALSE),
                Pop(kwargs, "adjust_nsamp", NoAdjust),
                Rest(kwargs, GainOptions))

(***************************************************************************)
(* The inputs of the calls.                                                *)
(***************************************************************************)
\* raw tables of n = 1..MaxN repeats (rows) of c estimators (columns)
Tables(c) == UNION {[1..n -> [1..c -> Vals]] : n \in 1..MaxN}

NumTable(t) == Arr([i \in 1..Len(t) |-> NumVec(t[i])])

\* cells of very different magnitude: 1 and the first power of two whose
\* successor is no floating-point number
Magnitudes == {1, 2^Precision}

\* raw tables of one column of such cells
SpreadTables == UNION {[1..n -> [1..1 -> Magnitudes]] : n \in 1..MaxN}

Zeros(c) == Arr([j \in 1..c |-> 0])

\* the true_values a caller may pass for c columns: absent, one value per
\* column, or one value too many
TrueValuesSet(c) == {None} \cup {Some(v) : v \in [1..c -> Vals]} \cup {Some(Zeros(c + 1))}

\* a keyword option that is either left out or given as v
Opt(name, given, v) == IF given THEN name :> v ELSE <<>>

\* **kwargs of a call of summary_df or of one of its adapters
SummaryKwargs(c) ==
    {Opt("true_values", tv.some, tv) @@ Opt("include_true_values", itv, TRUE)
       @@ Opt("include_rmse", irmse, TRUE) @@ Opt("unexpected", unx, 1) :
         tv \in TrueValuesSet(c), itv \in BOOLEAN, irmse \in BOOLEAN, unx \in BOOLEAN}

NoResult == [kind |-> "none", columns |-> <<>>, rows |-> <<>>]

Init ==
    /\ pc = "idle"
    /\ fn = "none"
    /\ args = <<>>
    /\ result = NoResult
    /\ futures = <<>>
    /\ results = <<>>

(***************************************************************************)
(* The calls of pandas_functions.py: the caller passes the arguments, then  *)
(* the function runs to its return or to the exception it raises.          *)
(***************************************************************************)
Called(f, a) ==
    /\ pc' = "called"
    /\ fn' = f
    /\ args' = a
    /\ UNCHANGED <<result, futures, results>>

\* summary_df(df_in, **kwargs)
CallSummaryDf ==
    /\ pc = "idle"
    /\ \E names \in EstNamesSet :
       \E t \in Tables(Len(names)), kwargs \in SummaryKwargs(Len(names)) :
          Called("summary_df",
                 [df_in |-> [columns |-> names, data |-> NumTable(t)],
                  kwargs |-> kwargs])

\* summary_df(df_in, **kwargs) on a column of cells of different magnitude
CallSummaryDfSpread ==
    /\ pc = "idle"
    /\ \E t \in SpreadTables, kwargs \in SummaryKwargs(1) :
          Called("summary_df",
                 [df_in |-> [columns |-> <<"samples">>, data |-> NumTable(t)],
                  kwargs |-> kwargs])

\* summary_df_from_array(results_array, names, axis, **kwargs)
CallSummaryDfFromArray ==
    /\ pc = "idle"
    /\ \E names \in EstNamesSet, shape \in EstNamesSet, axis \in {0, 1} :
       \E t \in Tables(Len(shape)), kwargs \in SummaryKwargs(Len(names)) :
          Called("summary_df_from_array",
                 [results_array |-> [shape |-> <<Len(t), Len(shape)>>,
                                     rows |-> NumTable(t)],
                  names |-> names, axis |-> axis, kwargs |-> kwargs])

\* summary_df_from_list(results_list, names, **kwargs)
CallSummaryDfFromList ==
    /\ pc = "idle"
    /\ \E names \in EstNamesSet, shape \in EstNamesSet :
       \E t \in Tables(Len(shape)), kwargs \in SummaryKwargs(Len(names)) :
          Called("summary_df_from_list",
                 [results_list |-> NumTable(t), names |-> names, kwargs |-> kwargs])

\* the grouped tables: every repeat of t is labelled with a group under the
\* index level name1, followed by the level "repeat"
MultiTables(names, name1) ==
    UNION {{[columns |-> names, names |-> <<name1, "repeat">>,
             rows |-> Arr([i \in 1..Len(t) |->
                             [idx |-> <<g[i], i>>, vals |-> NumVec(t[i])]])] :
              g \in [1..Len(t) -> IF name1 = "method" THEN {"method 1", "method 2"}
                                  ELSE {"true_subgroup"}]} :
           t \in Tables(Len(names))}

\* the **kwargs of tests.py's call of summary_df_from_multi, or none
MultiKwargs(c) ==
    {<<>>,
     [true_values |-> Some(Zeros(c)), include_true_values |-> TRUE, include_rmse |-> TRUE],
     [true_values |-> Some(Zeros(c)), include_rmse |-> TRUE]}

\* summary_df_from_multi(multi_in, inds_to_keep, **kwargs)
CallSummaryDfFromMulti ==
    /\ pc = "idle"
    /\ \E names \in EstNamesSet, name1 \in {"method", "calculation type"} :
       \E multi_in \in MultiTables(names, name1),
          inds_to_keep \in {None, Some(<<name1>>)},
          kwargs \in MultiKwargs(Len(names)) :
          Called("summary_df_from_multi",
                 [multi_in |-> multi_in, inds_to_keep |-> inds_to_keep,
                  kwargs |-> kwargs])

\* method_names, as in tests.py, for one to three methods
MethodNamesSet == {<<"old">>, <<"old", "new">>, <<"old", "new", "newer">>}

\* the cost of the methods, doubling from one method to the next
Costs == <<1, 2, 4, 8>>

\* t without its last repeat
DropLast(t) == SubSeq(t, 1, Len(t) - 1)

\* method_values: every method has the MaxN repeats of t, but for at most
\* one method, which has all but the last
MethodValuesSet(nm, c) ==
    UNION {{Arr([i \in 1..nm |-> IF i = short THEN NumTable(DropLast(t))
                                 ELSE NumTable(t)]) :
              short \in 0..nm} : t \in [1..MaxN -> [1..c -> Vals]]}

\* **kwargs of a call of efficiency_gain_df on nm methods with valid options
GainKwargs(nm, c) ==
    {Opt("true_values", tv.some, tv) @@ Opt("include_true_values", itv, TRUE)
       @@ Opt("include_rmse", irmse, TRUE)
       @@ Opt("adjust_nsamp", adj, Some(SubSeq(Costs, 1, nm))) :
         tv \in {None, Some(Zeros(c))},
         itv \in BOOLEAN, irmse \in BOOLEAN, adj \in BOOLEAN}

\* **kwargs with a cost vector or true values of the wrong length, or with
\* an option efficiency_gain_df does not know
GainBadKwargs(nm, c) ==
    {Opt("true_values", tv.some, tv)
       @@ Opt("adjust_nsamp", adj.some, adj) @@ Opt("unexpected", unx, 1) :
         tv \in {None, Some(Zeros(c + 1))},
         adj \in {NoAdjust, Some(SubSeq(Costs, 1, nm)), Some(SubSeq(Costs, 1, nm + 1))},
         unx \in BOOLEAN}

\* efficiency_gain_df(method_names, method_values, est_names, **kwargs)
CallEfficiencyGainDf ==
    /\ pc = "idle"
    /\ \E method_names \in MethodNamesSet, est_names \in EstNamesSet :
       \E method_values \in MethodValuesSet(Len(method_names), Len(est_names)),
          kwargs \in GainKwargs(Len(method_names), Len(est_names))
                     \cup GainBadKwargs(Len(method_names), Len(est_names)) :
          /\ kwargs \in GainBadKwargs(Len(method_names), Len(est_names))
                => \A i \in 1..Len(method_values) : method_values[i] = method_values[1]
          /\ Called("efficiency_gain_df",
                    [method_names |-> method_names, method_values |-> method_values,
                     est_names |-> est_names, kwargs |-> kwargs])

\* rmse_and_unc(values_array, true_values) with one true value per column
\* or one too many
CallRmseAndUnc ==
    /\ pc = "idle"
    /\ \E names \in EstNamesSet :
       \E t \in Tables(Len(names)),
          true_values \in [1..Len(names) -> Vals] \cup {Zeros(Len(names) + 1)} :
          Called("rmse_and_unc",
                 [values_array |-> NumTable(t), true_values |-> NumVec(true_values)])

PandasFunctions ==
    {"summary_df", "summary_df_from_array", "summary_df_from_list",
     "summary_df_from_multi", "efficiency_gain_df", "rmse_and_unc"}

\* what the called function returns or raises
Outcome ==
    CASE fn = "summary_df" -> SummaryDf(args.df_in, args.kwargs)
      [] fn = "summary_df_from_array" ->
            SummaryDfFromArray(args.results_array, args.names, args.axis, args.kwargs)
      [] fn = "summary_df_from_list" ->
            SummaryDfFromList(args.results_list, args.names, args.kwargs)
      [] fn = "summary_df_from_multi" ->
            SummaryDfFromMulti(args.multi_in, args.inds_to_keep, args.kwargs)
      [] fn = "efficiency_gain_df" ->
            EfficiencyGainDf(args.method_names, args.method_values, args.est_names,
                             args.kwargs)
      [] fn = "rmse_and_unc" ->
            RmseAndUnc(args.values_array, Len(args.values_array[1]), args.true_values)

\* the called function runs
Return ==
    /\ pc = "called"
    /\ fn \in PandasFunctions
    /\ result' = Outcome
    /\ pc' = "done"
    /\ UNCHANGED <<fn, args, futures, results>>

(***************************************************************************)
(* parallel_utils.py: the caller's func is applied to every element of     *)
(* arg_iterable, by the worker processes of a pool or one after another.   *)
(***************************************************************************)
MapOptions == {"func_pre_args", "func_kwargs", "max_workers", "parallel"}

ApplyOptions ==
    {"max_workers", "parallel", "func_args", "func_pre_args", "func_kwargs",
     "tqdm_kwargs"}

\* a Python tuple and a Python list of the same items
Tuple(items) == [type |-> "tuple", items |-> items]

PyList(items) == [type |-> "list", items |-> items]

\* the list a call returns
List(items) == [kind |-> "list", items |-> items]

\* func(*pre, x, *post, **keywords): the caller's function raises on the
\* inputs in func.raises and returns the arguments of the call otherwise
Func(func, pre, x, post, keywords) ==
    IF x \in func.raises THEN [kind |-> "RuntimeError", value |-> <<>>]
    ELSE [kind |-> "ok", value |-> [positional |-> pre \o <<x>> \o post,
                                     keywords |-> keywords]]

\* func applied to the elements xs in turn
Applied(func, pre, xs, post, keywords) ==
    Arr([i \in 1..Len(xs) |-> Func(func, pre, xs[i], post, keywords)])

Kinds(outcomes) == Arr([i \in 1..Len(outcomes) |-> outcomes[i].kind])

Values(outcomes) == Arr([i \in 1..Len(outcomes) |-> outcomes[i].value])

\* the list of the values, or the first exception raised on the way
Listed(outcomes) ==
    IF FirstRaised(Kinds(outcomes)) # "ok" THEN Raise(FirstRaised(Kinds(outcomes)))
    ELSE List(Values(outcomes))

\* the k-th of the chunks of chunksize elements of xs
Chunk(xs, chunksize, k) ==
    SubSeq(xs, (k - 1) * chunksize + 1,
           IF k * chunksize < Len(xs) THEN k * chunksize ELSE Len(xs))

\* pool.submit of one task per chunk of the iterable; a future records its
\* place in the order of completion (at, 0 while it is pending) and whether
\* it had finished before as_completed looked at it (early)
Submitted(xs, chunksize) ==
    Arr([k \in 1..((Len(xs) + chunksize - 1) \div chunksize) |->
           [task |-> Chunk(xs, chunksize, k), state |-> "pending", at |-> 0,
            early |-> FALSE]])

\* the call func runs with in parallel_map: functools.partial(func,
\* *func_pre_args, **func_kwargs) on the elements xs
MapApplied(xs) ==
    Applied(args.func, Pop(args.kwargs, "func_pre_args", Tuple(<<>>)).items, xs,
            <<>>, Pop(args.kwargs, "func_kwargs", <<>>))

\* the call func runs with in parallel_apply
ApplyApplied(xs) ==
    Applied(args.func, Pop(args.kwargs, "func_pre_args", Tuple(<<>>)).items, xs,
            Pop(args.kwargs, "func_args", Tuple(<<>>)).items,
            Pop(args.kwargs, "func_kwargs", <<>>))

Finish(p, r) ==
    /\ pc' = p
    /\ result' = r
    /\ UNCHANGED <<fn, args, futures, results>>

\* parallel_map up to the tasks handed to the pool, or to its return when
\* parallel=False
ParallelMap ==
    /\ pc = "called"
    /\ fn = "parallel_map"
    /\ IF DOMAIN Rest(args.kwargs, MapOptions) # {}
       THEN Finish("done", Raise("TypeError"))
       ELSE IF Pop(args.kwargs, "parallel", TRUE)
       THEN /\ pc' = "map"
            /\ futures' = Submitted(args.arg_iterable, args.chunksize)
            /\ results' = <<>>
            /\ UNCHANGED <<fn, args, result>>
       ELSE Finish("done", Listed(MapApplied(args.arg_iterable)))

\* parallel_apply up to the tasks handed to the pool, or to its return when
\* parallel=False
ParallelApply ==
    /\ pc = "called"
    /\ fn = "parallel_apply"
    /\ IF DOMAIN Rest(args.kwargs, ApplyOptions) # {}
       THEN Finish("done", Raise("TypeError"))
       ELSE IF \/ Pop(args.kwargs, "func_args", Tuple(<<>>)).type # "tuple"
               \/ Pop(args.kwargs, "func_pre_args", Tuple(<<>>)).type # "tuple"
       THEN Finish("done", Raise("AssertionError"))
       ELSE IF ~Pop(args.kwargs, "parallel", TRUE)
       THEN Finish("done", Listed(ApplyApplied(args.arg_iterable)))
       ELSE /\ pc' = "apply"
            /\ futures' = Submitted(args.arg_iterable, 1)
            /\ results' = <<>>
            /\ UNCHANGED <<fn, args, result>>

\* the number of futures whose task has finished
Completed == Cardinality({k \in 1..Len(futures) : futures[k].state # "pending"})

\* a worker process of the pool finishes one of the pending tasks
WorkerFinish ==
    /\ pc \in {"map", "apply", "as_completed"}
    /\ \E k \in 1..Len(futures) :
          /\ futures[k].state = "pending"
          /\ futures' = [futures EXCEPT ![k].state = "finished",
                                          ![k].at = Completed + 1]
    /\ UNCHANGED <<pc, fn, args, result, results>>

\* the caller takes the result of the future k and passes over it when its
\* task failed
CollectSkippingFailed(k, outcomes) ==
    /\ futures[k].state = "finished"
    /\ results' = results \o (IF FirstRaised(Kinds(outcomes)) # "ok" THEN <<>>
                               ELSE Values(outcomes))
    /\ futures' = [futures EXCEPT ![k].state = "yielded"]
    /\ UNCHANGED <<pc, fn, args, result>>

\* the caller takes the result of the future k: its values are appended
\* to results, or its exception ends the call
Collect(k, outcomes) ==
    /\ futures[k].state = "finished"
    /\ IF FirstRaised(Kinds(outcomes)) # "ok"
       THEN Finish("done", Raise(FirstRaised(Kinds(outcomes))))
       ELSE /\ results' = results \o Values(outcomes)
            /\ futures' = [futures EXCEPT ![k].state = "yielded"]
            /\ UNCHANGED <<pc, fn, args, result>>

\* of the finished futures, the one submitted last, and the first future
\* when none has finished
LastFinishedFuture ==
    IF \E k \in 1..Len(futures) : futures[k].state = "finished"
    THEN CHOOSE k \in 1..Len(futures) :
            /\ futures[k].state = "finished"
            /\ \A j \in (k + 1)..Len(futures) : futures[j].state # "finished"
    ELSE 1

\* the first future whose result has not been taken yet
NextFuture ==
    CHOOSE k \in 1..Len(futures) :
       /\ futures[k].state # "yielded"
       /\ \A j \in 1..(k - 1) : futures[j].state = "yielded"

Exhausted == \A k \in 1..Len(futures) : futures[k].state = "yielded"

\* list(pool.map(...)) takes the results of the futures in the order of
\* submission, waiting for each in turn
MapCollect ==
    /\ pc = "map"
    /\ ~Exhausted
    /\ Collect(NextFuture, MapApplied(futures[NextFuture].task))

\* concurrent.futures.as_completed(futures) is entered: the futures that
\* have finished by now are set apart, to be yielded first
AsCompleted ==
    /\ pc = "apply"
    /\ pc' = "as_completed"
    /\ futures' = Arr([k \in 1..Len(futures) |->
                        [futures[k] EXCEPT !.early = (futures[k].state = "finished")]])
    /\ UNCHANGED <<fn, args, result, results>>

\* a future as_completed may yield whenever it has finished
YieldableWhenFinished(k) == futures[k].state = "finished"

\* the future k is one as_completed may yield next: one of those that had
\* finished when it was entered, in no particular order, and once these are
\* all yielded the one that finished first of the others
Yieldable(k) ==
    /\ futures[k].state = "finished"
    /\ \/ futures[k].early
       \/ \A j \in 1..Len(futures) :
             futures[j].state = "finished"
                => ~futures[j].early /\ futures[j].at >= futures[k].at

\* the loop over as_completed takes the result of the future it yields
ApplyCollect ==
    /\ pc = "as_completed"
    /\ \E k \in 1..Len(futures) :
          /\ Yieldable(k)
          /\ Collect(k, ApplyApplied(futures[k].task))

\* every result has been taken: the list is returned
ParallelReturn ==
    /\ pc \in {"map", "as_completed"}
    /\ Exhausted
    /\ Finish("done", List(results))

\* the iterables a caller passes: up to MaxN elements
ArgIterables == UNION {[1..n -> Vals] : n \in 0..MaxN}

\* the functions a caller passes: one that always returns, one that raises
\* on the input 1
Funcs == {[raises |-> {}], [raises |-> {1}]}

ParallelOpts == {<<>>, "parallel" :> TRUE, "parallel" :> FALSE}

\* **kwargs of a call of parallel_map
MapKwargs ==
    {par @@ Opt("func_pre_args", pre, Tuple(<<1>>))
         @@ Opt("func_kwargs", kw, [kwarg |-> 2]) @@ Opt("unexpected", unx, 1) :
       par \in ParallelOpts, pre \in BOOLEAN, kw \in BOOLEAN, unx \in BOOLEAN}

\* **kwargs of a call of parallel_apply
ApplyKwargs ==
    {par @@ fa @@ Opt("func_pre_args", extras, Tuple(<<3>>))
         @@ Opt("func_kwargs", extras, [kwarg |-> 2]) @@ Opt("unexpected", unx, 1) :
       par \in ParallelOpts,
       fa \in {<<>>, "func_args" :> Tuple(<<1>>), "func_args" :> PyList(<<1>>)},
       extras \in BOOLEAN, unx \in BOOLEAN}

\* parallel_map(func, arg_iterable, chunksize=1, **kwargs)
CallParallelMap ==
    /\ pc = "idle"
    /\ \E func \in Funcs, arg_iterable \in ArgIterables, chunksize \in {1, 2},
          kwargs \in MapKwargs :
          Called("parallel_map",
                 [func |-> func, arg_iterable |-> arg_iterable,
                  chunksize |-> chunksize, kwargs |-> kwargs])

\* parallel_apply(func, arg_iterable, **kwargs)
CallParallelApply ==
    /\ pc = "idle"
    /\ \E func \in Funcs, arg_iterable \in ArgIterables, kwargs \in ApplyKwargs :
          Called("parallel_apply",
                 [func |-> func, arg_iterable |-> arg_iterable, kwargs |-> kwargs])

\* the calls of parallel_utils.py alone
NextParallel ==
    \/ CallParallelMap
    \/ CallParallelApply
    \/ ParallelMap
    \/ ParallelApply
    \/ WorkerFinish
    \/ MapCollect
    \/ AsCompleted
    \/ ApplyCollect
    \/ ParallelReturn

SpecParallel == Init /\ [][NextParallel]_vars

Next ==
    \/ CallSummaryDf
    \/ CallSummaryDfSpread
    \/ CallSummaryDfFromArray
    \/ CallSummaryDfFromList
    \/ CallSummaryDfFromMulti
    \/ CallEfficiencyGainDf
    \/ CallRmseAndUnc
    \/ Return
    \/ NextParallel

Spec == Init /\ [][Next]_vars

\* the calls of summary_df and of its adapters alone
NextSummary ==
    \/ CallSummaryDf
    \/ CallSummaryDfFromArray
    \/ CallSummaryDfFromList
    \/ CallSummaryDfFromMulti
    \/ Return

SpecSummary == Init /\ [][NextSummary]_vars

\* the calls of summary_df alone
NextRepeats ==
    \/ CallSummaryDf
    \/ CallSummaryDfSpread
    \/ Return

SpecRepeats == Init /\ [][NextRepeats]_vars

\* the calls that check the lengths of their arguments
NextShapes ==
    \/ CallSummaryDf
    \/ CallSummaryDfFromList
    \/ CallEfficiencyGainDf
    \/ CallRmseAndUnc
    \/ Return

SpecShapes == Init /\ [][NextShapes]_vars

\* the calls of efficiency_gain_df alone
NextGain ==
    \/ CallEfficiencyGainDf
    \/ Return

SpecGain == Init /\ [][NextGain]_vars

\* the calls of efficiency_gain_df and of the summary_df_from_list it builds on
NextGainRows ==
    \/ CallSummaryDfFromList
    \/ CallEfficiencyGainDf
    \/ Return

SpecGainRows == Init /\ [][NextGainRows]_vars

(***************************************************************************)
(* The properties of the calls.                                            *)
(***************************************************************************)
\* the call of f has ended, by a return or by an exception
Ended(f) == pc = "done" /\ fn = f

\* the keyword option name of the call, default when it is not given
Option(name, default) == Pop(args.kwargs, name, default)

\* the options the four public entry points document
Recognised ==
    [summary_df |-> {"true_values", "include_true_values", "include_rmse"},
     efficiency_gain_df |-> {"true_values", "include_true_values", "include_rmse",
                             "adjust_nsamp"},
     parallel_map |-> {"func_pre_args", "func_kwargs", "parallel", "max_workers"},
     parallel_apply |-> {"func_args", "func_pre_args", "func_kwargs", "parallel",
                         "max_workers", "tqdm_kwargs"}]

\* C1: a call of summary_df, efficiency_gain_df, parallel_map or
\* parallel_apply with a keyword option outside its recognised set ends with
\* TypeError, whatever its other arguments: it hands no task to the pool and
\* returns no result.
C1_UnexpectedOptionRaises ==
    (/\ pc \notin {"idle", "called"}
     /\ fn \in DOMAIN Recognised
     /\ (DOMAIN args.kwargs) \ Recognised[fn] # {})
    => (pc = "done" /\ result = Raise("TypeError"))

\* C1 happens: efficiency_gain_df is given an unknown option next to a cost
\* vector of the wrong length, and parallel_apply could be given one as well
C1_Witness ==
    /\ Ended("efficiency_gain_df")
    /\ "unexpected" \in DOMAIN args.kwargs
    /\ Option("adjust_nsamp", NoAdjust).some
    /\ Len(Option("adjust_nsamp", NoAdjust).v) # Len(args.method_names)
    /\ result = Raise("TypeError")

\* the call of summary_df has only options summary_df accepts: known names,
\* one true value per column, and true values when a row needs them
ValidSummaryCall ==
    /\ DOMAIN args.kwargs \subseteq Recognised["summary_df"]
    /\ Option("true_values", None).some
          => Len(Option("true_values", None).v) = Len(args.df_in.columns)
    /\ (Option("include_true_values", FALSE) \/ Option("include_rmse", FALSE))
          => Option("true_values", None).some

\* the entry of column j in the row (ct, rt) of the returned table
Entry(ct, rt, j) == Loc(result.rows, ct, rt)[j]

NonNegative(a) == a.k = "fin" /\ a.p >= 0

\* column j of the returned table holds the statistics of column j of the
\* table of n repeats given to summary_df
ColumnStatistics(data, n, j) ==
    /\ Mul(Num(n), Entry("mean", "value", j)) = SumSeq(Column(data, j))
    /\ NonNegative(Entry("std", "value", j))
    /\ Mul(Num(n - 1), Sq(Entry("std", "value", j)))
          = SumSeq(SqDev(Column(data, j), Entry("mean", "value", j)))
    /\ NonNegative(Entry("mean", "uncertainty", j))
    /\ Mul(Num(n), Sq(Entry("mean", "uncertainty", j))) = Sq(Entry("std", "value", j))
    /\ NonNegative(Entry("std", "uncertainty", j))
    /\ Mul(Num(2 * (n - 1)), Sq(Entry("std", "uncertainty", j)))
          = Sq(Entry("std", "value", j))

\* C2 (as amended): for a table of N >= 2 repeats summary_df returns, per
\* column, mean = sum / N, std with N * mean = sum and (N - 1) * std^2 = the
\* sum of the squared deviations, mean uncertainty = std / sqrt(N) and std
\* uncertainty = std * sqrt(1 / (2 * (N - 1))); for N = 1 it returns no
\* table but raises ZeroDivisionError.
C2_StatisticsFromTwoRepeats ==
    (Ended("summary_df") /\ ValidSummaryCall)
    => IF Len(args.df_in.data) >= 2
       THEN /\ result.kind = "ok"
            /\ \A j \in 1..Len(args.df_in.columns) :
                  ColumnStatistics(args.df_in.data, Len(args.df_in.data), j)
       ELSE result = Raise("ZeroDivisionError")

\* C2 happens: a table of three repeats whose first column is not constant
C2_Witness ==
    /\ Ended("summary_df")
    /\ ValidSummaryCall
    /\ Len(args.df_in.data) = MaxN
    /\ result.kind = "ok"
    /\ ~IsZero(Entry("std", "value", 1))
    /\ Entry("std", "uncertainty", 1) = Div(Entry("std", "value", 1), Num(2))

\* C2 as stated: for every table, of a single repeat too, summary_df
\* returns the four statistics
C2_StatisticsForEveryTable ==
    (Ended("summary_df") /\ ValidSummaryCall)
    => /\ result.kind = "ok"
       /\ \A j \in 1..Len(args.df_in.columns) :
             ColumnStatistics(args.df_in.data, Len(args.df_in.data), j)

\* the keys (calculation type, result type) of the rows of the returned table
Keys == Arr([i \in 1..Len(result.rows) |-> <<result.rows[i].ct, result.rows[i].rt>>])

\* C3: the keys of the table summary_df returns are {mean, std} x {value,
\* uncertainty}, with ('true values', 'value') iff include_true_values and
\* the two rmse keys iff include_rmse, each key once.
C3_KeySet ==
    (Ended("summary_df") /\ result.kind = "ok")
    => /\ Range(Keys)
            = ({"mean", "std"} \X {"value", "uncertainty"})
              \cup (IF Option("include_true_values", FALSE)
                    THEN {<<"true values", "value">>} ELSE {})
              \cup (IF Option("include_rmse", FALSE)
                    THEN {"rmse"} \X {"value", "uncertainty"} ELSE {})
       /\ Cardinality(Range(Keys)) = Len(Keys)
       /\ (Option("include_true_values", FALSE) /\ Option("include_rmse", FALSE))
             => Len(Keys) = 7
       /\ (~Option("include_true_values", FALSE) /\ ~Option("include_rmse", FALSE))
             => Len(Keys) = 4

\* C3 happens: a table with both options set and its seven rows
C3_Witness ==
    /\ Ended("summary_df")
    /\ result.kind = "ok"
    /\ Option("include_true_values", FALSE)
    /\ Option("include_rmse", FALSE)
    /\ Len(result.rows) = 7

\* the canonical order of the keys of a summary table
CanonicalKeys ==
    <<<<"true values", "value">>, <<"mean", "value">>, <<"mean", "uncertainty">>,
      <<"std", "value">>, <<"std", "uncertainty">>,
      <<"rmse", "value">>, <<"rmse", "uncertainty">>>>

\* C4: the rows of the table summary_df returns are in canonical order:
\* true values, mean, std, rmse, and 'value' before 'uncertainty'.
C4_CanonicalOrder ==
    (Ended("summary_df") /\ result.kind = "ok")
    => \A i \in 1..Len(Keys), j \in 1..Len(Keys) :
          i < j => IndexOf(CanonicalKeys, Keys[i]) < IndexOf(CanonicalKeys, Keys[j])

\* C4 happens: the true values, which the code inserts third, are the first
\* row and the uncertainty on the mean, inserted fourth, is the third
C4_Witness ==
    /\ Ended("summary_df")
    /\ result.kind = "ok"
    /\ Len(Keys) = 7
    /\ Keys[1] = <<"true values", "value">>
    /\ Keys[3] = <<"mean", "uncertainty">>

\* C5 (as amended): with true_values absent and include_true_values or
\* include_rmse set, summary_df returns no table: it raises TypeError when
\* an unknown option is given as well, ZeroDivisionError when only
\* include_rmse is set and the table has a single repeat, and
\* AssertionError in every other case.
C5_NoTableWithoutTrueValues ==
    (/\ Ended("summary_df")
     /\ ~Option("true_values", None).some
     /\ (Option("include_true_values", FALSE) \/ Option("include_rmse", FALSE)))
    => result = Raise(IF ~(DOMAIN args.kwargs \subseteq Recognised["summary_df"])
                      THEN "TypeError"
                      ELSE IF /\ ~Option("include_true_values", FALSE)
                              /\ Len(args.df_in.data) = 1
                           THEN "ZeroDivisionError"
                      ELSE "AssertionError")

\* C5 happens: include_true_values is set without true values on a table of
\* two repeats or more and the assertion fails
C5_Witness ==
    /\ Ended("summary_df")
    /\ DOMAIN args.kwargs = {"include_true_values"}
    /\ Len(args.df_in.data) >= 2
    /\ result = Raise("AssertionError")

\* C5 as stated: the failure is always the validation error
C5_AlwaysValidationError ==
    (/\ Ended("summary_df")
     /\ ~Option("true_values", None).some
     /\ (Option("include_true_values", FALSE) \/ Option("include_rmse", FALSE)))
    => result = Raise("AssertionError")

\* the squared errors of column j of the table against its true value
SquaredErrors(data, true_values, j) ==
    Arr([i \in 1..Len(data) |-> Sq(Sub(data[i][j], Num(true_values[j])))])

\* C6: with include_rmse the row ('rmse', 'value') of summary_df holds, per
\* column, the non-negative r with N * r^2 = the sum over the repeats of
\* (value - true value)^2.
C6_RmseValue ==
    (Ended("summary_df") /\ result.kind = "ok" /\ Option("include_rmse", FALSE))
    => \A j \in 1..Len(args.df_in.columns) :
          /\ NonNegative(Entry("rmse", "value", j))
          /\ Mul(Num(Len(args.df_in.data)), Sq(Entry("rmse", "value", j)))
                = SumSeq(SquaredErrors(args.df_in.data,
                                       Option("true_values", None).v, j))

\* C6 happens: an rmse against a true value that is not zero, and that
\* differs from the rmse against zero
C6_Witness ==
    /\ Ended("summary_df")
    /\ result.kind = "ok"
    /\ Option("include_rmse", FALSE)
    /\ Option("true_values", None).v[1] = 1
    /\ ~IsZero(Entry("rmse", "value", 1))
    /\ Mul(Num(Len(args.df_in.data)), Sq(Entry("rmse", "value", 1)))
          # SumSeq(SquaredErrors(args.df_in.data, Zeros(Len(args.df_in.columns)), 1))

\* the transpose of an array of c columns
Transposed(a, c) == Arr([j \in 1..c |-> Arr([i \in 1..Len(a) |-> a[i][j]])])

\* C7: summary_df_from_list on the rows, summary_df_from_array with axis=0
\* on the array and with axis=1 on its transpose all end as summary_df does
\* on the table of these rows with the same options.
C7_AdaptersAgree ==
    /\ (/\ Ended("summary_df_from_list")
        /\ \A i \in 1..Len(args.results_list) :
              Len(args.results_list[i]) = Len(args.names))
       => result = SummaryDf([columns |-> args.names, data |-> args.results_list],
                             args.kwargs)
    /\ (/\ Ended("summary_df_from_array")
        /\ args.axis = 0
        /\ args.results_array.shape[2] = Len(args.names))
       => result = SummaryDf([columns |-> args.names,
                              data |-> args.results_array.rows], args.kwargs)
    /\ (/\ Ended("summary_df_from_array")
        /\ args.axis = 1
        /\ args.results_array.shape[1] = Len(args.names))
       => result = SummaryDf([columns |-> args.names,
                              data |-> Transposed(args.results_array.rows,
                                                  args.results_array.shape[2])],
                             args.kwargs)

\* C7 happens: an array of one estimator (row) and two repeats (columns) is
\* summarised along axis 1
C7_Witness ==
    /\ Ended("summary_df_from_array")
    /\ args.axis = 1
    /\ args.results_array.shape = <<1, 2>>
    /\ Len(args.names) = 1
    /\ result.kind = "ok"
    /\ result = SummaryDf([columns |-> args.names,
                           data |-> Transposed(args.results_array.rows, 2)],
                          args.kwargs)

\* the levels summary_df_from_multi groups the table of the call on
KeptOfCall ==
    KeptLevels(args.multi_in.names,
               IF args.inds_to_keep.some THEN args.inds_to_keep.v
               ELSE SubSeq(args.multi_in.names, 1, Len(args.multi_in.names) - 1))

\* the group keys of the table of the call
KeysOfCall ==
    {GroupKey(args.multi_in.rows[i].idx, KeptOfCall) : i \in 1..Len(args.multi_in.rows)}

\* what summary_df gives for the rows of the group key with the options
SummaryOfGroup(key, kwargs) ==
    SummaryDf([columns |-> args.multi_in.columns,
               data |-> GroupRows(args.multi_in.rows, KeptOfCall, key)], kwargs)

\* the rows of the returned table under the group key, without the key
RowsOfGroup(key) ==
    Arr([i \in 1..Len(SelectSeq(result.rows,
                                LAMBDA r : SubSeq(r.idx, 1, Len(key)) = key)) |->
           [ct |-> SelectSeq(result.rows,
                             LAMBDA r : SubSeq(r.idx, 1, Len(key)) = key)[i].idx[Len(key) + 1],
            rt |-> SelectSeq(result.rows,
                             LAMBDA r : SubSeq(r.idx, 1, Len(key)) = key)[i].idx[Len(key) + 2],
            vals |-> SelectSeq(result.rows,
                               LAMBDA r : SubSeq(r.idx, 1, Len(key)) = key)[i].vals]])

\* summary_df_from_multi returns, for every group, the table of summary_df
\* on the group's rows with the options kwargs
GroupsSummarisedWith(kwargs) ==
    (\A key \in KeysOfCall : SummaryOfGroup(key, kwargs).kind = "ok")
    => /\ result.kind = "ok"
       /\ \A key \in KeysOfCall : RowsOfGroup(key) = SummaryOfGroup(key, kwargs).rows

\* C8 as stated: summary_df_from_multi called with true_values,
\* include_true_values and include_rmse returns, for every group, the table
\* summary_df returns for the rows of the group with these options.
C8_MultiForwardsOptions ==
    (/\ Ended("summary_df_from_multi")
     /\ DOMAIN args.kwargs
           = {"true_values", "include_true_values", "include_rmse"}
     /\ "calculation type" \notin Range(args.multi_in.names))
    => GroupsSummarisedWith(args.kwargs)

\* the entry of column j in the row (ct, ds, rt) of the returned gain table
GainEntry(ct, ds, rt, j) ==
    result.rows[CHOOSE i \in 1..Len(result.rows) :
                   /\ result.rows[i].ct = ct
                   /\ result.rows[i].ds = ds
                   /\ result.rows[i].rt = rt].vals[j]

\* the call of efficiency_gain_df has only options it accepts, and every
\* method has the same raw values
IdenticalMethodsCall ==
    /\ DOMAIN args.kwargs \subseteq Recognised["efficiency_gain_df"]
    /\ Option("true_values", None).some
          => Len(Option("true_values", None).v) = Len(args.est_names)
    /\ Option("include_rmse", FALSE) => Option("true_values", None).some
    /\ Option("adjust_nsamp", NoAdjust).some
          => Len(Option("adjust_nsamp", NoAdjust).v) = Len(args.method_names)
    /\ \A i \in 1..Len(args.method_values) :
          args.method_values[i] = args.method_values[1]

\* the statistics efficiency_gain_df tracks in the call
TrackedStats == IF Option("include_rmse", FALSE) THEN {"std", "rmse"} ELSE {"std"}

\* C9 as stated: with adjust_nsamp supplied and identical methods, for any
\* number of methods and of estimators the gain value of method i is
\* adjust_nsamp[0] / adjust_nsamp[i] in every estimator column (the columns
\* in which the statistic is zero apart).
C9_AdjustFactorPerMethod ==
    (/\ Ended("efficiency_gain_df")
     /\ IdenticalMethodsCall
     /\ Option("adjust_nsamp", NoAdjust).some)
    => /\ result.kind = "ok"
       /\ \A i \in 2..Len(args.method_names), stat \in TrackedStats,
             j \in 1..Len(args.est_names) :
             ~IsZero(GainEntry(stat, args.method_names[1], "value", j))
             => GainEntry(stat \o " efficiency gain", args.method_names[i], "value", j)
                   = Fin(Option("adjust_nsamp", NoAdjust).v[1],
                         Option("adjust_nsamp", NoAdjust).v[i], 1)

\* C10 (as amended): with identical methods and no adjust_nsamp, the gain
\* value of every other method is 1 in every estimator column in which the
\* baseline's statistic (std, and rmse when it is tracked) is not zero, and
\* NaN in the columns in which it is zero.
C10_UnitGainWhereDefined ==
    (/\ Ended("efficiency_gain_df")
     /\ IdenticalMethodsCall
     /\ ~Option("adjust_nsamp", NoAdjust).some)
    => /\ result.kind = "ok"
       /\ \A i \in 2..Len(args.method_names), stat \in TrackedStats,
             j \in 1..Len(args.est_names) :
             GainEntry(stat \o " efficiency gain", args.method_names[i], "value", j)
                = IF IsZero(GainEntry(stat, args.method_names[1], "value", j))
                  THEN NaN ELSE One

\* C10 happens: three identical methods, the rmse tracked, and a gain of 1
\* for the third method
C10_Witness ==
    /\ Ended("efficiency_gain_df")
    /\ IdenticalMethodsCall
    /\ ~Option("adjust_nsamp", NoAdjust).some
    /\ Len(args.method_names) = 3
    /\ Option("include_rmse", FALSE)
    /\ result.kind = "ok"
    /\ GainEntry("rmse efficiency gain", args.method_names[3], "value", 1) = One
    /\ GainEntry("std efficiency gain", args.method_names[3], "value", 1) = One

\* C10 as stated: the gain value is 1 in every estimator column
C10_UnitGainEverywhere ==
    (/\ Ended("efficiency_gain_df")
     /\ IdenticalMethodsCall
     /\ ~Option("adjust_nsamp", NoAdjust).some)
    => /\ result.kind = "ok"
       /\ \A i \in 2..Len(args.method_names), stat \in TrackedStats,
             j \in 1..Len(args.est_names) :
             GainEntry(stat \o " efficiency gain", args.method_names[i], "value", j) = One

\* the keys (calculation type, dynamic settings, result type) of the rows of
\* the returned gain table
GainKeys ==
    Arr([i \in 1..Len(result.rows) |->
           <<result.rows[i].ct, result.rows[i].ds, result.rows[i].rt>>])

GainTypes == {"std efficiency gain", "rmse efficiency gain"}

\* the (calculation type, result type) of the gain rows of a method
GainKeysOf(method) ==
    {<<k[1], k[3]>> : k \in {x \in Range(GainKeys) : x[2] = method /\ x[1] \in GainTypes}}

\* C11: in the table efficiency_gain_df returns the first method has no
\* efficiency gain row, and every other method has the value and the
\* uncertainty row of 'std efficiency gain', and those of 'rmse efficiency
\* gain' iff include_rmse is set.
C11_GainRowsOfOtherMethods ==
    (Ended("efficiency_gain_df") /\ result.kind = "ok")
    => /\ GainKeysOf(args.method_names[1]) = {}
       /\ GainKeysOf("") = {}
       /\ \A i \in 2..Len(args.method_names) :
             GainKeysOf(args.method_names[i])
                = ({"std efficiency gain"} \X {"value", "uncertainty"})
                  \cup (IF Option("include_rmse", FALSE)
                        THEN {"rmse efficiency gain"} \X {"value", "uncertainty"}
                        ELSE {})
       /\ Cardinality(Range(GainKeys)) = Len(GainKeys)

\* C11 happens: three methods with the rmse tracked, the third with its
\* four gain rows
C11_Witness ==
    /\ Ended("efficiency_gain_df")
    /\ result.kind = "ok"
    /\ Len(args.method_names) = 3
    /\ Option("include_rmse", FALSE)
    /\ Cardinality(GainKeysOf(args.method_names[3])) = 4
    /\ GainKeysOf(args.method_names[1]) = {}

\* the keys of the rows with the dynamic settings label ds
KeysUnder(ds) == {k \in Range(GainKeys) : k[2] = ds}

C13_OneTrueValuesRow ==
    (Ended("efficiency_gain_df") /\ result.kind = "ok")
    => /\ {k \in Range(GainKeys) : k[1] = "true values"}
            = (IF Option("include_true_values", FALSE)
               THEN {<<"true values", "", "value">>} ELSE {})
       /\ Cardinality(Range(GainKeys)) = Len(GainKeys)
       /\ (Option("include_true_values", FALSE) /\ Option("true_values", None).some)
             => \A j \in 1..Len(args.est_names) :
                   GainEntry("true values", "", "value", j)
                      = Num(Option("true_values", None).v[j])

\* C13 happens: three methods, true values supplied and included, and the
\* first row of the table is the one true values row
C13_Witness ==
    /\ Ended("efficiency_gain_df")
    /\ result.kind = "ok"
    /\ Len(args.method_names) = 3
    /\ Option("include_true_values", FALSE)
    /\ Option("true_values", None).some
    /\ GainKeys[1] = <<"true values", "", "value">>
    /\ GainKeys[2][1] = "mean"

\* the call of f passes recognised options only, and tuples where tuples
\* are asserted
ValidParallelCall(f) ==
    /\ DOMAIN args.kwargs \subseteq Recognised[f]
    /\ Option("func_args", Tuple(<<>>)).type = "tuple"
    /\ Option("func_pre_args", Tuple(<<>>)).type = "tuple"

\* func raises on none of the inputs of the call
NoTaskFails == \A i \in 1..Len(args.arg_iterable) : args.arg_iterable[i] \notin args.func.raises

\* what func returns for the i-th input of the call, with the positional
\* arguments post behind it
PerInput(i, post) ==
    Func(args.func, Option("func_pre_args", Tuple(<<>>)).items, args.arg_iterable[i],
         post, Option("func_kwargs", <<>>)).value

\* the futures a and b finished in the order opposite to their submission
FinishedOutOfOrder(a, b) == a < b /\ futures[a].at > futures[b].at

\* C14: parallel_map returns the results in input order: when no task fails,
\* the list it returns has one element per input and its i-th element is
\* func(*func_pre_args, x_i, **func_kwargs), in whatever order the worker
\* processes finish the tasks, for every chunksize, and with parallel=False.
C14_MapInInputOrder ==
    (Ended("parallel_map") /\ ValidParallelCall("parallel_map") /\ NoTaskFails)
       => /\ result.kind = "list"
          /\ Len(result.items) = Len(args.arg_iterable)
          /\ \A i \in 1..Len(args.arg_iterable) : result.items[i] = PerInput(i, <<>>)

\* a parallel call of parallel_map on three inputs, not all equal, has
\* returned, and its last task finished before its first
C14_Witness ==
    /\ Ended("parallel_map")
    /\ result.kind = "list"
    /\ args.arg_iterable = <<0, 1, 0>>
    /\ Len(futures) = 3
    /\ FinishedOutOfOrder(1, 3)
    /\ FinishedOutOfOrder(1, 2)

\* the orders in which n futures can be yielded
Orders(n) == {ord \in [1..n -> 1..n] : \A i, j \in 1..n : ord[i] = ord[j] => i = j}

\* the call runs its tasks in the pool
InParallel == Option("parallel", TRUE)

\* what func returns for the i-th input of a call of parallel_apply
ApplyPerInput(i) == PerInput(i, Option("func_args", Tuple(<<>>)).items)

\* the returned list holds the results of the inputs in the order ord
ResultsInOrder(ord) == \A i \in 1..Len(ord) : result.items[i] = ApplyPerInput(ord[i])

\* in the order ord the futures that had finished when as_completed was
\* entered come first, and the others follow in their order of completion
EarlyThenAsCompleted(ord) ==
    \A i, j \in 1..Len(ord) :
       i < j => /\ futures[ord[j]].early => futures[ord[i]].early
                /\ (~futures[ord[i]].early /\ ~futures[ord[j]].early)
                      => futures[ord[i]].at < futures[ord[j]].at

\* in the order ord the futures follow each other as they completed
InCompletionOrder(ord) ==
    \A i, j \in 1..Len(ord) : i < j => futures[ord[i]].at < futures[ord[j]].at

\* parallel_apply has returned the list of a call none of whose tasks fails
ApplyReturned == Ended("parallel_apply") /\ ValidParallelCall("parallel_apply") /\ NoTaskFails

\* C15: when no task fails, parallel_apply returns a list that is a
\* permutation of the per-input results func(*func_pre_args, x, *func_args,
\* **func_kwargs), one per input, and with parallel=True only after every
\* submitted task has completed; with parallel=False the list is in input
\* order, with parallel=True the results of the tasks that had finished when
\* the collection began come first, in no particular order, and the others
\* follow in their order of completion.
C15_ApplyPermutation ==
    ApplyReturned
       => /\ result.kind = "list"
          /\ Len(result.items) = Len(args.arg_iterable)
          /\ IF InParallel
             THEN /\ Len(futures) = Len(args.arg_iterable)
                  /\ \A k \in 1..Len(futures) : futures[k].state = "yielded"
                  /\ \E ord \in Orders(Len(futures)) :
                        ResultsInOrder(ord) /\ EarlyThenAsCompleted(ord)
             ELSE /\ futures = <<>>
                  /\ \A i \in 1..Len(args.arg_iterable) : result.items[i] = ApplyPerInput(i)

\* a parallel call of parallel_apply on three inputs has returned a list that
\* is not in input order; one task had finished when the collection began,
\* the others finished later
C15_Witness ==
    /\ ApplyReturned
    /\ InParallel
    /\ result.kind = "list"
    /\ Len(futures) = 3
    /\ result.items[1] # ApplyPerInput(1)
    /\ \E a, b \in 1..3 : futures[a].early /\ ~futures[b].early

\* C15 as stated, in what it says of parallel=True: the returned list is in
\* the order in which the tasks completed
C15_ApplyCompletionOrder ==
    (ApplyReturned /\ InParallel /\ result.kind = "list")
       => \E ord \in Orders(Len(futures)) : ResultsInOrder(ord) /\ InCompletionOrder(ord)

\* a call of parallel_map or of parallel_apply with valid options has ended
ParallelEnded ==
    \/ Ended("parallel_map") /\ ValidParallelCall("parallel_map")
    \/ Ended("parallel_apply") /\ ValidParallelCall("parallel_apply")

\* C16: when func fails on one of the inputs, parallel_map and parallel_apply
\* end with the exception of the failed task: they return no list, so never
\* the partial list of the results of the tasks that succeeded.
C16_FailurePropagates ==
    (ParallelEnded /\ ~NoTaskFails)
       => result = Raise("RuntimeError")

\* a parallel call has ended with the exception of a failed task after the
\* results of other tasks had been collected
C16_Witness ==
    /\ ParallelEnded
    /\ ~NoTaskFails
    /\ Option("parallel", TRUE)
    /\ results # <<>>
    /\ result.kind = "RuntimeError"

\* the raw table data with the rows a and b exchanged
Exchanged(data, a, b) ==
    Arr([i \in 1..Len(data) |->
           IF i = a THEN data[b] ELSE IF i = b THEN data[a] ELSE data[i]])

\* the repeats (rows) of the table passed to summary_df
Repeats == 1..Len(args.df_in.data)

\* C17: the outcome of summary_df does not depend on the order of the
\* repeats when the statistics are computed exactly: with any two rows of the
\* raw table exchanged, summary_df with the same options gives the same
\* table, with the same rows in the same order and the same exact values.
\* (The exchanges of two rows generate every permutation, and the tables the
\* callers pass are closed under them.)
C17_SameForExchangedRepeats ==
    Ended("summary_df")
       => \A a, b \in Repeats :
             SummaryDf([columns |-> args.df_in.columns,
                        data |-> Exchanged(args.df_in.data, a, b)], args.kwargs) = result

\* summary_df has returned a table with rmse rows for three repeats the
\* first and the last of which differ
C17_Witness ==
    /\ Ended("summary_df")
    /\ result.kind = "ok"
    /\ Len(args.df_in.data) = 3
    /\ args.df_in.data[1] # args.df_in.data[3]
    /\ Option("include_rmse", FALSE)
    /\ Len(result.rows) >= 6

\* C17 as stated, for the values floating point computes: the mean of every
\* column, summed in the order of the rows and rounded, is the same with any
\* two rows exchanged
C17_SameRoundedForExchangedRepeats ==
    (Ended("summary_df") /\ result.kind = "ok")
       => \A a, b \in Repeats : \A j \in 1..Len(args.df_in.columns) :
             FloatMean(Column(Exchanged(args.df_in.data, a, b), j))
                = FloatMean(Column(args.df_in.data, j))

\* the exception of a call whose lengths do not match: the assertion fails,
\* unless the check of the options, which comes first, has raised already
RejectedAs(f) ==
    Raise(IF DOMAIN args.kwargs \subseteq Recognised[f] THEN "AssertionError"
          ELSE "TypeError")

\* true_values of a call of summary_df has not one entry per column
TrueValuesMismatch ==
    /\ Option("true_values", None).some
    /\ Len(Option("true_values", None).v) # Len(args.df_in.columns)

\* adjust_nsamp of a call of efficiency_gain_df has not one entry per method
AdjustMismatch ==
    /\ Option("adjust_nsamp", NoAdjust).some
    /\ Len(Option("adjust_nsamp", NoAdjust).v) # Len(args.method_names)

\* a repeat of a call of summary_df_from_list has not one entry per name
RepeatMismatch ==
    \E i \in 1..Len(args.results_list) : Len(args.results_list[i]) # Len(args.names)

\* C18 (as amended): every length mismatch is rejected and no table is
\* returned. summary_df_from_list raises AssertionError when a repeat has not
\* one entry per estimator name, and rmse_and_unc when true_values has not one
\* entry per column; summary_df, when true_values has not one entry per
\* column, and efficiency_gain_df, when adjust_nsamp has not one entry per
\* method, raise AssertionError when every option is recognised and the
\* TypeError of the unexpected option, which is checked first, otherwise.
C18_MismatchRejected ==
    /\ (Ended("summary_df") /\ TrueValuesMismatch) => result = RejectedAs("summary_df")
    /\ (Ended("rmse_and_unc") /\ Len(args.true_values) # Len(args.values_array[1]))
          => result = [kind |-> "AssertionError", rmse |-> <<>>, unc |-> <<>>]
    /\ (Ended("summary_df_from_list") /\ RepeatMismatch) => result = Raise("AssertionError")
    /\ (Ended("efficiency_gain_df") /\ AdjustMismatch)
          => result = RejectedAs("efficiency_gain_df")

\* a call of rmse_and_unc with three true values for two columns has ended
\* with AssertionError
C18_Witness ==
    /\ Ended("rmse_and_unc")
    /\ Len(args.true_values) = 3
    /\ Len(args.values_array[1]) = 2
    /\ Len(args.values_array) >= 2
    /\ result.kind = "AssertionError"

\* C18 as stated: every length mismatch ends with the error of the shapes
C18_AlwaysShapeError ==
    /\ (Ended("summary_df") /\ TrueValuesMismatch) => result = Raise("AssertionError")
    /\ (Ended("summary_df_from_list") /\ RepeatMismatch) => result = Raise("AssertionError")
    /\ (Ended("efficiency_gain_df") /\ AdjustMismatch) => result = Raise("AssertionError")

\* baseline value / method value of the statistic stat in column j, from the
\* rows of the first method and of the method i of the returned table
Ratio(stat, i, j) ==
    Div(GainEntry(stat, args.method_names[1], "value", j),
        GainEntry(stat, args.method_names[i], "value", j))

\* the relative uncertainty of the statistic stat of the method i in column j
Relative(stat, i, j) ==
    Div(GainEntry(stat, args.method_names[i], "uncertainty", j),
        GainEntry(stat, args.method_names[i], "value", j))

\* ratio * sqrt((baseline uncertainty / baseline value)^2
\*              + (method uncertainty / method value)^2)
RatioUnc(stat, i, j) ==
    Mul(Ratio(stat, i, j), Sqrt(Add(Sq(Relative(stat, 1, j)), Sq(Relative(stat, i, j)))))

\* efficiency_gain_df has returned a table for a call without adjust_nsamp
GainReturnedUnadjusted ==
    /\ Ended("efficiency_gain_df")
    /\ result.kind = "ok"
    /\ ~Option("adjust_nsamp", NoAdjust).some

\* C19: without cost adjustment, for every method but the first, every
\* tracked statistic and every estimator, the gain value is ratio^2 and the
\* gain uncertainty 2 * ratio * ratio_unc, where ratio = value of the first
\* method / value of the method and ratio_unc = ratio * sqrt((baseline
\* uncertainty / baseline value)^2 + (method uncertainty / method value)^2):
\* the baseline is the first method of method_names.
C19_GainFromRatioToFirst ==
    GainReturnedUnadjusted
       => \A i \in 2..Len(args.method_names), stat \in TrackedStats,
             j \in 1..Len(args.est_names) :
             /\ GainEntry(stat \o " efficiency gain", args.method_names[i], "value", j)
                   = Sq(Ratio(stat, i, j))
             /\ GainEntry(stat \o " efficiency gain", args.method_names[i],
                          "uncertainty", j)
                   = Mul(Mul(Num(2), Ratio(stat, i, j)), RatioUnc(stat, i, j))

\* three methods of which the second has one repeat less: its std gain is
\* 2/3 where the first method's std is sqrt(1/3) and its own sqrt(1/2), and
\* the gain of the third method, equal to the first, is 1
C19_Witness ==
    /\ GainReturnedUnadjusted
    /\ Len(args.method_names) = 3
    /\ args.method_values[2] # args.method_values[1]
    /\ GainEntry("std", args.method_names[1], "value", 1) = Fin(1, 3, 3)
    /\ GainEntry("std", args.method_names[2], "value", 1) = Fin(1, 2, 2)
    /\ GainEntry("std efficiency gain", args.method_names[2], "value", 1) = Fin(2, 3, 1)
    /\ GainEntry("std efficiency gain", args.method_names[3], "value", 1) = One

\* the names of the kept levels of the call of summary_df_from_multi
KeptNamesOfCall ==
    IF args.inds_to_keep.some THEN args.inds_to_keep.v
    ELSE SubSeq(args.multi_in.names, 1, Len(args.multi_in.names) - 1)

\* the labels the rows of the table of the call carry on the level named name
LabelsOfCall(name) ==
    {args.multi_in.rows[i].idx[IndexOf(args.multi_in.names, name)] :
       i \in 1..Len(args.multi_in.rows)}

\* the summary's calculation type followed by the label the table had
SummaryLabelFirst == {ct \o " " \o l : ct \in Range(SummaryCategories), l \in LabelsOfCall("calculation type")}

\* C20 as stated: when 'calculation type' is among the kept keys of
\* summary_df_from_multi, the returned table has one level of that name, at
\* the place of the original one and followed by 'result type' after the
\* kept keys, and each of its labels is the summary's calculation type
\* followed by the label the table had ("mean" then "true_subgroup").
C20_SummaryLabelPrepended ==
    (/\ Ended("summary_df_from_multi")
     /\ result.kind = "ok"
     /\ "calculation type" \in Range(KeptNamesOfCall))
    => /\ result.names = KeptNamesOfCall \o <<"result type">>
       /\ \A i \in 1..Len(result.rows) :
             result.rows[i].idx[IndexOf(KeptNamesOfCall, "calculation type")]
                \in SummaryLabelFirst

\* the result types a calculation type must have: 'true values' has a value
\* only, every other one a value and an uncertainty
ResultTypesOf(ct) == IF ct = "true values" THEN {"value"} ELSE {"value", "uncertainty"}

\* C21: in every table summary_df returns, and for every method of every
\* table efficiency_gain_df returns, each calculation type present has both
\* its 'value' and its 'uncertainty' row, except 'true values', which has
\* the 'value' row only: no uncertainty row is without its value row.
C21_ValueAndUncertaintyRows ==
    /\ (Ended("summary_df") /\ result.kind = "ok")
          => \A k \in Range(Keys) :
                {rt \in {"value", "uncertainty"} : <<k[1], rt>> \in Range(Keys)}
                   = ResultTypesOf(k[1])
    /\ (Ended("efficiency_gain_df") /\ result.kind = "ok")
          => \A k \in Range(GainKeys) :
                {rt \in {"value", "uncertainty"} : <<k[1], k[2], rt>> \in Range(GainKeys)}
                   = ResultTypesOf(k[1])

\* efficiency_gain_df has returned the table of three methods with the true
\* values and the rmse: the third method has the uncertainty of its rmse gain
C21_Witness ==
    /\ Ended("efficiency_gain_df")
    /\ result.kind = "ok"
    /\ Len(args.method_names) = 3
    /\ <<"true values", "", "value">> \in Range(GainKeys)
    /\ <<"rmse efficiency gain", args.method_names[3], "uncertainty">> \in Range(GainKeys)
    /\ <<"rmse", args.method_names[1], "uncertainty">> \in Range(GainKeys)

\* the place of the key k of a row of the gain table in the canonical order
\* of each of its three levels, 0 for a label outside the order
CanonicalPlace(k) ==
    <<IndexOf(<<"true values", "mean", "std", "rmse", "std efficiency gain",
                "rmse efficiency gain">>, k[1]),
      IndexOf(<<"">> \o args.method_names, k[2]),
      IndexOf(<<"value", "uncertainty">>, k[3])>>

\* the place of the i-th row of the returned table
PlaceOfRow(i) ==
    CanonicalPlace(<<result.rows[i].ct, result.rows[i].ds, result.rows[i].rt>>)

\* the place a comes strictly before the place b, level by level
Before(a, b) ==
    \/ a[1] < b[1]
    \/ a[1] = b[1] /\ a[2] < b[2]
    \/ a[1] = b[1] /\ a[2] = b[2] /\ a[3] < b[3]

\* C22: the rows of the table efficiency_gain_df returns are sorted
\* lexicographically: by calculation type in the order true values, mean,
\* std, rmse, std efficiency gain, rmse efficiency gain, then by dynamic
\* settings in the order '' and the methods as given in method_names, then
\* by result type, 'value' before 'uncertainty'; every label is in its order
\* and every row comes strictly before the next.
C22_GainRowsSorted ==
    (Ended("efficiency_gain_df") /\ result.kind = "ok")
       => /\ \A i \in 1..Len(result.rows), l \in 1..3 : PlaceOfRow(i)[l] > 0
          /\ \A i \in 1..(Len(result.rows) - 1) :
                Before(PlaceOfRow(i), PlaceOfRow(i + 1))

\* the table of three methods with the true values and the rmse is returned:
\* the true values row, written last, is the first, the mean of the second
\* method comes before the std of the first, and the rmse gain is last
C22_Witness ==
    /\ Ended("efficiency_gain_df")
    /\ result.kind = "ok"
    /\ Len(args.method_names) = 3
    /\ Len(GainKeys) = 27
    /\ GainKeys[1] = <<"true values", "", "value">>
    /\ GainKeys[4] = <<"mean", args.method_names[2], "value">>
    /\ GainKeys[8] = <<"std", args.method_names[1], "value">>
    /\ GainKeys[27] = <<"rmse efficiency gain", args.method_names[3], "uncertainty">>

\* every repeat of column j of the table data equals the true value tv
AllEqual(data, j, tv) == \A i \in 1..Len(data) : data[i][j] = tv

\* a number that is NaN or infinite
Undefined(a) == a.k \in {"nan", "inf"}

\* the call of efficiency_gain_df has options it accepts, of the right
\* lengths, and a cost adjustment only for two methods
PlainGainCall ==
    /\ DOMAIN args.kwargs \subseteq Recognised["efficiency_gain_df"]
    /\ Option("true_values", None).some
          => Len(Option("true_values", None).v) = Len(args.est_names)
    /\ Option("include_rmse", FALSE) => Option("true_values", None).some
    /\ Option("adjust_nsamp", NoAdjust).some
          => /\ Len(Option("adjust_nsamp", NoAdjust).v) = Len(args.method_names)
             /\ Len(args.method_names) = 2

\* rmse_and_unc returns, with rmse 0 and an undefined uncertainty in every
\* column whose repeats all equal the true value
RmseZeroReturned ==
    (Ended("rmse_and_unc") /\ Len(args.true_values) = Len(args.values_array[1]))
       => /\ result.kind = "ok"
          /\ \A j \in 1..Len(args.true_values) :
                AllEqual(args.values_array, j, args.true_values[j])
                   => result.rmse[j] = Zero /\ Undefined(result.unc[j])

\* efficiency_gain_df returns, with an undefined gain in every column in
\* which the std or the rmse of the method is zero
GainOfZeroReturned ==
    (Ended("efficiency_gain_df") /\ PlainGainCall)
       => /\ result.kind = "ok"
          /\ \A i \in 2..Len(args.method_names), stat \in TrackedStats,
                j \in 1..Len(args.est_names) :
                IsZero(GainEntry(stat, args.method_names[i], "value", j))
                   => /\ Undefined(GainEntry(stat \o " efficiency gain",
                                             args.method_names[i], "value", j))
                      /\ Undefined(GainEntry(stat \o " efficiency gain",
                                             args.method_names[i], "uncertainty", j))

SummaryRowsUnder(method) ==
    {[ct |-> result.rows[r].ct, rt |-> result.rows[r].rt, vals |-> result.rows[r].vals] :
       r \in {x \in 1..Len(result.rows) :
                result.rows[x].ds = method /\ result.rows[x].ct \notin GainTypes}}

\* what summary_df_from_list returns for the values of the method i alone,
\* with the true_values and the include_rmse of the call
SummaryAlone(i) ==
    SummaryDfFromList(args.method_values[i], args.est_names,
                      Opt("true_values", Option("true_values", None).some,
                          Option("true_values", None))
                      @@ Opt("include_rmse", Option("include_rmse", FALSE), TRUE))

\* C24: in the table efficiency_gain_df returns, the mean, std and rmse rows
\* (value and uncertainty) of every method, the first included, are the rows
\* summary_df_from_list returns for the values of that method alone with the
\* same true_values and include_rmse: the gains of the later methods leave
\* the summary rows of every method as they were.
C24_SummaryRowsUntouched ==
    (Ended("efficiency_gain_df") /\ result.kind = "ok")
       => \A i \in 1..Len(args.method_names) :
             /\ SummaryRowsUnder(args.method_names[i]) # {}
             /\ SummaryRowsUnder(args.method_names[i]) = Range(SummaryAlone(i).rows)

\* the table of three methods with the rmse is returned; the second method
\* has a repeat less than the first and another std
C24_Witness ==
    /\ Ended("efficiency_gain_df")
    /\ result.kind = "ok"
    /\ Len(args.method_names) = 3
    /\ Option("include_rmse", FALSE)
    /\ Len(args.method_values[2]) < Len(args.method_values[1])
    /\ GainEntry("std", args.method_names[2], "value", 1)
          # GainEntry("std", args.method_names[1], "value", 1)
    /\ Cardinality(SummaryRowsUnder(args.method_names[2])) = 6

\* C25: efficiency_gain_df called with include_true_values set and the
\* true_values absent fails, as summary_df does on its assertion, and
\* returns no table with an undefined true values row.
C25_AbsentTrueValuesRejected ==
    (/\ Ended("efficiency_gain_df")
     /\ Option("include_true_values", FALSE)
     /\ ~Option("true_values", None).some)
       => result.kind # "ok"

============================================================================
